---- MODULE Spec2Model ----
(***************************************************************************)
(* A model of ros2_launch_helpers/helpers.py: the namespace helpers        *)
(* (is_valid_name, is_valid_namespace, create_global_namespace,            *)
(* create_robot_namespace, create_robot_prefix and                         *)
(* _replace_separator_in_namespace) and the strict overlay merge           *)
(* (merge_yaml_maps_strict with its nested same_type and the flatten /     *)
(* unflatten steps it hands to the benedict mapping).                      *)
(*                                                                         *)
(* Python strings are sequences of one-character strings.  A mapping is a  *)
(* sequence of entries [k, v] with distinct keys, in insertion order, as a *)
(* Python dict is.  A value is a record [tag, val, items]: tag is the      *)
(* Python type name, val tells two values of one type apart, and items is  *)
(* the mapping held by a value whose tag is "dict".                        *)
(***************************************************************************)
EXTENDS Integers, Sequences, FiniteSets, TLC

VARIABLES op, pc, ns, robot_name, new_sep, s_arg, defaults, override, allow_none,
          numeric_compat, a, b, result

vars == <<op, pc, ns, robot_name, new_sep, s_arg, defaults, override, allow_none,
          numeric_compat, a, b, result>>

(***************************************************************************)
(* Bounds of the model.                                                    *)
(***************************************************************************)
\* Longest namespace string given to the namespace helpers.
MaxLen == 5

\* Most mapping entries (at any depth) in defaults and override together.
MaxNodes == 4

\* Most mapping entries (at any depth) in a document flattened and
\* unflattened on its own.
MaxDocNodes == 3

\* Characters of the namespace strings: a letter, a digit, the underscore,
\* the separator, a whitespace character and a character no name may hold.
Chars == {"a", "1", "_", "/", " ", "-"}

\* Keys of the documents given to the merge.  Flat paths are taken to name
\* one leaf each, so no key holds the join separator.
Keys == {<<"a">>, <<"b">>}

\* Keys of the documents flattened and unflattened on their own: the same,
\* and a key that holds the join separator.
RoundTripKeys == Keys \cup {<<"a", ".", "b">>}

(***************************************************************************)
(* Python string operations.                                               *)
(***************************************************************************)
IsSpace(c) == c = " "

IsDigit(c) == c = "1"

IsAsciiAlnum(c) == c \in {"a", "1"}

StartsWith(s, c) == Len(s) > 0 /\ s[1] = c

EndsWith(s, c) == Len(s) > 0 /\ s[Len(s)] = c

RECURSIVE LStripWs(_)
LStripWs(s) == IF Len(s) > 0 /\ IsSpace(s[1]) THEN LStripWs(Tail(s)) ELSE s

RECURSIVE RStrip(_, _)
RStrip(s, c) ==
    IF EndsWith(s, c) THEN RStrip(SubSeq(s, 1, Len(s) - 1), c) ELSE s

Strip(s) == RStrip(LStripWs(s), " ")

\* s.split(sep): the pieces between the occurrences of sep, empty ones kept.
RECURSIVE SplitFrom(_, _, _)
SplitFrom(s, sep, cur) ==
    IF s = <<>> THEN <<cur>>
    ELSE IF s[1] = sep THEN <<cur>> \o SplitFrom(Tail(s), sep, <<>>)
    ELSE SplitFrom(Tail(s), sep, Append(cur, s[1]))

Split(s, sep) == SplitFrom(s, sep, <<>>)

(***************************************************************************)
(* is_valid_name                                                           *)
(***************************************************************************)
MaxNameLen == 255

ValidChar(c) == c = "_" \/ IsAsciiAlnum(c)

\* A faulty variant: a name may start with a digit.
is_valid_name_digit_first(s) ==
    /\ Len(s) > 0
    /\ Len(s) <= MaxNameLen
    /\ \A i \in 1..Len(s) : ValidChar(s[i])

is_valid_name(s) ==
    /\ Len(s) > 0
    /\ Len(s) <= MaxNameLen
    /\ ~IsDigit(s[1])
    /\ \A i \in 1..Len(s) : ValidChar(s[i])

(***************************************************************************)
(* is_valid_namespace                                                      *)
(***************************************************************************)
MsgEmpty == "Namespace cannot be empty after removing leading and trailing '/'"

MsgConsecutive == "Consecutive '/' are not allowed in a namespace"

MsgSegment == "Namespace segments must be ASCII [A-Za-z0-9_] only"

\* The loop over the items of ns.split('/'), from item i on.
RECURSIVE CheckItems(_, _)
CheckItems(items, i) ==
    IF i > Len(items) THEN [ok |-> TRUE, msg |-> ""]
    ELSE IF items[i] = <<>> THEN [ok |-> FALSE, msg |-> MsgConsecutive]
    ELSE IF ~is_valid_name(items[i]) THEN [ok |-> FALSE, msg |-> MsgSegment]
    ELSE CheckItems(items, i + 1)

\* A faulty variant: the trailing separator is not removed before the split.
is_valid_namespace_keep_trailing(s) ==
    IF s = <<>> \/ s = <<"/">> THEN [ok |-> TRUE, msg |-> ""]
    ELSE LET s1 == IF StartsWith(s, "/") THEN Tail(s) ELSE s
         IN  IF s1 = <<>> THEN [ok |-> FALSE, msg |-> MsgEmpty]
             ELSE CheckItems(Split(s1, "/"), 1)

is_valid_namespace(s) ==
    IF s = <<>> \/ s = <<"/">> THEN [ok |-> TRUE, msg |-> ""]
    ELSE LET s1 == IF StartsWith(s, "/") THEN Tail(s) ELSE s
             s2 == IF EndsWith(s1, "/") THEN SubSeq(s1, 1, Len(s1) - 1) ELSE s1
         IN  IF s2 = <<>> THEN [ok |-> FALSE, msg |-> MsgEmpty]
             ELSE CheckItems(Split(s2, "/"), 1)

(***************************************************************************)
(* create_global_namespace                                                 *)
(***************************************************************************)
\* A faulty variant: the separator is prepended even when it is already there.
create_global_namespace_always_prepend(namespace) ==
    LET s == Strip(namespace)
    IN  IF s = <<>> \/ s = <<"/">>
        THEN [status |-> "ok", value |-> <<"/">>, msg |-> ""]
        ELSE LET t == <<"/">> \o RStrip(s, "/")
                 v == is_valid_namespace(t)
             IN  IF v.ok THEN [status |-> "ok", value |-> t, msg |-> ""]
                 ELSE [status |-> "RuntimeError", value |-> <<>>, msg |-> v.msg]

\* A faulty variant: the trailing '/' is kept.
create_global_namespace_keep_trailing(namespace) ==
    LET s == Strip(namespace)
    IN  IF s = <<>> \/ s = <<"/">>
        THEN [status |-> "ok", value |-> <<"/">>, msg |-> ""]
        ELSE LET t == IF StartsWith(s, "/") THEN s ELSE <<"/">> \o s
                 v == is_valid_namespace(t)
             IN  IF v.ok THEN [status |-> "ok", value |-> t, msg |-> ""]
                 ELSE [status |-> "RuntimeError", value |-> <<>>, msg |-> v.msg]

create_global_namespace(namespace) ==
    LET s == Strip(namespace)
    IN  IF s = <<>> \/ s = <<"/">>
        THEN [status |-> "ok", value |-> <<"/">>, msg |-> ""]
        ELSE LET r == RStrip(s, "/")
                 t == IF StartsWith(r, "/") THEN r ELSE <<"/">> \o r
                 v == is_valid_namespace(t)
             IN  IF v.ok THEN [status |-> "ok", value |-> t, msg |-> ""]
                 ELSE [status |-> "RuntimeError", value |-> <<>>, msg |-> v.msg]

(***************************************************************************)
(* create_robot_namespace                                                  *)
(***************************************************************************)
MsgName == "must be a non-empty string with ASCII [A-Za-z0-9_] only"

\* A faulty variant: the '/' that ends the namespace is kept.
create_robot_namespace_keep_trailing(namespace, name) ==
    LET r == Strip(name)
    IN  IF ~is_valid_name(r)
        THEN [status |-> "RuntimeError", value |-> <<>>, msg |-> MsgName]
        ELSE IF namespace \in {<<>>, <<"/">>}
        THEN [status |-> "ok", value |-> namespace \o r, msg |-> ""]
        ELSE LET v == is_valid_namespace(namespace)
             IN  IF v.ok
                 THEN [status |-> "ok", value |-> namespace \o <<"/">> \o r,
                       msg |-> ""]
                 ELSE [status |-> "RuntimeError", value |-> <<>>,
                       msg |-> v.msg]

\* name is the robot_name argument.
create_robot_namespace(namespace, name) ==
    LET r == Strip(name)
    IN  IF ~is_valid_name(r)
        THEN [status |-> "RuntimeError", value |-> <<>>, msg |-> MsgName]
        ELSE IF namespace \in {<<>>, <<"/">>}
        THEN [status |-> "ok", value |-> namespace \o r, msg |-> ""]
        ELSE LET n == IF EndsWith(namespace, "/")
                      THEN RStrip(namespace, "/") ELSE namespace
                 v == is_valid_namespace(n)
             IN  IF v.ok
                 THEN [status |-> "ok", value |-> n \o <<"/">> \o r,
                       msg |-> ""]
                 ELSE [status |-> "RuntimeError", value |-> <<>>,
                       msg |-> v.msg]

(***************************************************************************)
(* create_robot_prefix                                                     *)
(***************************************************************************)
\* A faulty variant: the '_' is appended to a name that already ends with it.
create_robot_prefix_always_append(name) ==
    LET r == Strip(name)
    IN  IF ~is_valid_name(r)
        THEN [status |-> "RuntimeError", value |-> <<>>, msg |-> MsgName]
        ELSE [status |-> "ok", value |-> r \o <<"_">>, msg |-> ""]

\* name is the robot_name argument.
create_robot_prefix(name) ==
    LET r == Strip(name)
    IN  IF ~is_valid_name(r)
        THEN [status |-> "RuntimeError", value |-> <<>>, msg |-> MsgName]
        ELSE IF EndsWith(r, "_")
        THEN [status |-> "ok", value |-> r, msg |-> ""]
        ELSE [status |-> "ok", value |-> r \o <<"_">>, msg |-> ""]

(***************************************************************************)
(* _replace_separator_in_namespace                                         *)
(***************************************************************************)
\* str.lstrip(c): every leading c is removed.
RECURSIVE LStrip(_, _)
LStrip(s, c) == IF StartsWith(s, c) THEN LStrip(Tail(s), c) ELSE s

\* str.replace(old, new) for a one-character old.
RECURSIVE Replace(_, _, _)
Replace(s, old, new) ==
    IF s = <<>> THEN <<>>
    ELSE (IF Head(s) = old THEN new ELSE <<Head(s)>>)
             \o Replace(Tail(s), old, new)

MsgSep == "New separator must be a single character string"

\* A faulty variant: the leading '/' is replaced like the others.
_replace_separator_in_namespace_keep_leading(namespace, sep) ==
    IF Len(sep) # 1
    THEN [status |-> "ValueError", value |-> <<>>, msg |-> MsgSep]
    ELSE IF namespace \in {<<>>, <<"/">>}
    THEN [status |-> "ok", value |-> <<>>, msg |-> ""]
    ELSE LET v == is_valid_namespace(namespace)
         IN  IF ~v.ok
             THEN [status |-> "RuntimeError", value |-> <<>>, msg |-> v.msg]
             ELSE [status |-> "ok",
                   value |-> Replace(RStrip(namespace, "/"), "/", sep),
                   msg |-> ""]

\* sep is the new_sep argument.
_replace_separator_in_namespace(namespace, sep) ==
    IF Len(sep) # 1
    THEN [status |-> "ValueError", value |-> <<>>, msg |-> MsgSep]
    ELSE IF namespace \in {<<>>, <<"/">>}
    THEN [status |-> "ok", value |-> <<>>, msg |-> ""]
    ELSE LET v == is_valid_namespace(namespace)
         IN  IF ~v.ok
             THEN [status |-> "RuntimeError", value |-> <<>>, msg |-> v.msg]
             ELSE [status |-> "ok",
                   value |-> Replace(RStrip(LStrip(namespace, "/"), "/"),
                                     "/", sep),
                   msg |-> ""]

(***************************************************************************)
(* Values and mappings of a configuration document.                        *)
(***************************************************************************)
Leaf(tag, val) == [tag |-> tag, val |-> val, items |-> <<>>]

MapVal(m) == [tag |-> "dict", val |-> 0, items |-> m]

None == Leaf("NoneType", 0)

Entry(k, v) == [k |-> k, v |-> v]

\* key in m
HasKey(m, k) == \E i \in 1..Len(m) : m[i].k = k

\* m[key]
Get(m, k) == m[CHOOSE i \in 1..Len(m) : m[i].k = k].v

\* m[key] = v: an existing key keeps its position, a new one goes last.
Put(m, k, v) ==
    IF HasKey(m, k)
    THEN [i \in 1..Len(m) |-> IF m[i].k = k THEN Entry(k, v) ELSE m[i]]
    ELSE Append(m, Entry(k, v))

\* list(m.keys())
KeysOf(m) == [i \in 1..Len(m) |-> m[i].k]

(***************************************************************************)
(* flatten(separator), as called on defaults and on override: a            *)
(* depth-first walk in key order; a mapping is descended into and is not   *)
(* itself emitted; the segments of a path are joined with the separator;   *)
(* a flat key met twice is an error (KeyError).                            *)
(***************************************************************************)
FlatSep == "."

\* The keypath separator, a character no key holds (the section sign in the
\* source).
KeypathSep == "#"

FlattenKey(base_key, key, sep) ==
    IF base_key = <<>> THEN key ELSE base_key \o <<sep>> \o key

RECURSIVE FlattenItem(_, _, _, _)
FlattenItem(d, base_key, sep, acc) ==
    IF d = <<>> \/ ~acc.ok THEN acc
    ELSE LET e == Head(d)
             new_key == FlattenKey(base_key, e.k, sep)
         IN  IF e.v.tag = "dict"
             THEN FlattenItem(Tail(d), base_key, sep,
                      FlattenItem(e.v.items, new_key, sep, acc))
             ELSE IF HasKey(acc.flat, new_key)
             THEN [ok |-> FALSE, flat |-> acc.flat]
             ELSE FlattenItem(Tail(d), base_key, sep,
                      [ok |-> TRUE, flat |-> Append(acc.flat, Entry(new_key, e.v))])

Flatten(d, sep) == FlattenItem(d, <<>>, sep, [ok |-> TRUE, flat |-> <<>>])

(***************************************************************************)
(* unflatten(separator), as called on merged_flat: every flat key is split *)
(* on the separator and its value set at that key list, the intermediate   *)
(* mappings made as needed; what is in the way is replaced.                *)
(***************************************************************************)
RECURSIVE SetItem(_, _, _)
SetItem(m, keys, value) ==
    IF Len(keys) = 1 THEN Put(m, keys[1], value)
    ELSE LET sub == IF HasKey(m, keys[1]) /\ Get(m, keys[1]).tag = "dict"
                    THEN Get(m, keys[1]).items
                    ELSE <<>>
         IN  Put(m, keys[1], MapVal(SetItem(sub, Tail(keys), value)))

RECURSIVE UnflattenFrom(_, _, _, _)
UnflattenFrom(flat, i, sep, acc) ==
    IF i > Len(flat) THEN acc
    ELSE UnflattenFrom(flat, i + 1, sep,
             SetItem(acc, Split(flat[i].k, sep), flat[i].v))

Unflatten(flat, sep) == UnflattenFrom(flat, 1, sep, <<>>)

(***************************************************************************)
(* merge_yaml_maps_strict and its nested same_type                         *)
(***************************************************************************)
\* isinstance(v, numbers.Real): int, float and, as a subclass of int, bool.
IsReal(v) == v.tag \in {"int", "float", "bool"}

\* A faulty variant: numeric compatibility lets a bool through.
same_type_bool_is_number(x, y, nc) ==
    IF x.tag = y.tag THEN TRUE
    ELSE nc /\ IsReal(x) /\ IsReal(y)

same_type(x, y, nc) ==
    IF x.tag = y.tag THEN TRUE
    ELSE IF nc /\ IsReal(x) /\ IsReal(y)
    THEN x.tag # "bool" /\ y.tag # "bool"
    ELSE FALSE

MergeStart ==
    [status |-> "ok", merged_flat |-> <<>>, applied |-> <<>>, ignored |-> <<>>,
     err_key |-> <<>>, err_default |-> "", err_override |-> ""]

\* A faulty variant: a null override value is type-checked like any other.
MergeItem_null_checked(d_flatten, o_flatten, i, an, nc, acc) ==
    LET dk == d_flatten[i].k
        dv == d_flatten[i].v
    IN  IF HasKey(o_flatten, dk)
        THEN LET ov == Get(o_flatten, dk)
             IN  IF ~same_type(dv, ov, nc)
                 THEN [acc EXCEPT !.status = "TypeError", !.err_key = dk,
                                  !.err_default = dv.tag, !.err_override = ov.tag]
                 ELSE [acc EXCEPT !.merged_flat = Put(@, dk, ov),
                                  !.applied = Append(@, dk)]
        ELSE [acc EXCEPT !.merged_flat = Put(@, dk, dv)]

\* A faulty variant: a type mismatch keeps the default and records the path as
\* ignored instead of failing.
MergeItem_lenient(d_flatten, o_flatten, i, an, nc, acc) ==
    LET dk == d_flatten[i].k
        dv == d_flatten[i].v
    IN  IF HasKey(o_flatten, dk)
        THEN LET ov == Get(o_flatten, dk)
             IN  IF ov.tag = "NoneType"
                 THEN IF an
                      THEN [acc EXCEPT !.merged_flat = Put(@, dk, None),
                                       !.applied = Append(@, dk)]
                      ELSE [acc EXCEPT !.merged_flat = Put(@, dk, dv),
                                       !.ignored = Append(@, dk)]
                 ELSE IF ~same_type(dv, ov, nc)
                 THEN [acc EXCEPT !.merged_flat = Put(@, dk, dv),
                                  !.ignored = Append(@, dk)]
                 ELSE [acc EXCEPT !.merged_flat = Put(@, dk, ov),
                                  !.applied = Append(@, dk)]
        ELSE [acc EXCEPT !.merged_flat = Put(@, dk, dv)]

\* A faulty variant: a path the override does not have is not copied.
MergeItem_drop_inherited(d_flatten, o_flatten, i, an, nc, acc) ==
    LET dk == d_flatten[i].k
        dv == d_flatten[i].v
    IN  IF HasKey(o_flatten, dk)
        THEN LET ov == Get(o_flatten, dk)
             IN  IF ov.tag = "NoneType"
                 THEN IF an
                      THEN [acc EXCEPT !.merged_flat = Put(@, dk, None),
                                       !.applied = Append(@, dk)]
                      ELSE [acc EXCEPT !.merged_flat = Put(@, dk, dv),
                                       !.ignored = Append(@, dk)]
                 ELSE IF ~same_type(dv, ov, nc)
                 THEN [acc EXCEPT !.status = "TypeError", !.err_key = dk,
                                  !.err_default = dv.tag, !.err_override = ov.tag]
                 ELSE [acc EXCEPT !.merged_flat = Put(@, dk, ov),
                                  !.applied = Append(@, dk)]
        ELSE acc

\* One pass of the loop over d_flatten.items(), at item i.
MergeItem(d_flatten, o_flatten, i, an, nc, acc) ==
    LET dk == d_flatten[i].k
        dv == d_flatten[i].v
    IN  IF HasKey(o_flatten, dk)
        THEN LET ov == Get(o_flatten, dk)
             IN  IF ov.tag = "NoneType"
                 THEN IF an
                      THEN [acc EXCEPT !.merged_flat = Put(@, dk, None),
                                       !.applied = Append(@, dk)]
                      ELSE [acc EXCEPT !.merged_flat = Put(@, dk, dv),
                                       !.ignored = Append(@, dk)]
                 ELSE IF ~same_type(dv, ov, nc)
                 THEN [acc EXCEPT !.status = "TypeError", !.err_key = dk,
                                  !.err_default = dv.tag, !.err_override = ov.tag]
                 ELSE [acc EXCEPT !.merged_flat = Put(@, dk, ov),
                                  !.applied = Append(@, dk)]
        ELSE [acc EXCEPT !.merged_flat = Put(@, dk, dv)]

\* A faulty variant: the items of d_flatten are walked last to first.
RECURSIVE MergeLoop_reversed(_, _, _, _, _, _)
MergeLoop_reversed(d_flatten, o_flatten, i, an, nc, acc) ==
    IF i > Len(d_flatten) \/ acc.status # "ok" THEN acc
    ELSE MergeLoop_reversed(d_flatten, o_flatten, i + 1, an, nc,
             MergeItem(d_flatten, o_flatten, Len(d_flatten) + 1 - i, an, nc, acc))

RECURSIVE MergeLoop(_, _, _, _, _, _)
MergeLoop(d_flatten, o_flatten, i, an, nc, acc) ==
    IF i > Len(d_flatten) \/ acc.status # "ok" THEN acc
    ELSE MergeLoop(d_flatten, o_flatten, i + 1, an, nc,
             MergeItem(d_flatten, o_flatten, i, an, nc, acc))

\* A faulty variant: the override's extra keys are not reported.
Extras_dropped(d_flatten, o_flatten) == <<>>

\* A faulty variant: every key of the override is reported as ignored.
Extras_all(d_flatten, o_flatten) == KeysOf(o_flatten)

\* The second loop: the override's keys the defaults do not have.
Extras(d_flatten, o_flatten) ==
    LET NotDefault(ok) == ~HasKey(d_flatten, ok)
    IN  SelectSeq(KeysOf(o_flatten), NotDefault)

Failed(status, key, dtype, otype) ==
    [status |-> status, nested |-> <<>>, applied |-> <<>>, ignored |-> <<>>,
     err_key |-> key, err_default |-> dtype, err_override |-> otype]

merge_yaml_maps_strict(dflt, over, flat_sep, an, nc) ==
    LET d == Flatten(dflt, flat_sep)
        o == Flatten(over, flat_sep)
    IN  IF ~d.ok \/ ~o.ok THEN Failed("KeyError", <<>>, "", "")
        ELSE LET acc == MergeLoop(d.flat, o.flat, 1, an, nc, MergeStart)
             IN  IF acc.status # "ok"
                 THEN Failed(acc.status, acc.err_key, acc.err_default, acc.err_override)
                 ELSE [status |-> "ok",
                       nested |-> Unflatten(acc.merged_flat, flat_sep),
                       applied |-> acc.applied,
                       ignored |-> acc.ignored \o Extras(d.flat, o.flat),
                       err_key |-> <<>>, err_default |-> "", err_override |-> ""]

(***************************************************************************)
(* The inputs.                                                             *)
(***************************************************************************)
\* Every string of at most MaxLen characters.
Strs == UNION {[1..n -> Chars] : n \in 0..MaxLen}

\* The leaves of the documents: an int, a float and null.
DocLeaves == {Leaf("int", 1), Leaf("float", 2), None}

\* One value of every type same_type is given, two of int.
TypeValues ==
    {Leaf("int", 1), Leaf("int", 2), Leaf("float", 1), Leaf("bool", 1),
     Leaf("str", 1), Leaf("list", 1), None}

\* MapsN(n): the mappings that hold n entries in all, nested ones counted.
\* MapsTable(K, nmax)[n + 1]: the mappings with keys in K that hold n
\* entries in all, nested ones counted, for n up to nmax.
ValuesOf(n, tab) ==
    IF n = 0 THEN DocLeaves \cup {MapVal(<<>>)}
    ELSE {MapVal(m) : m \in tab[n + 1]}

MapsOf(n, K, tab) ==
    IF n = 0 THEN {<<>>}
    ELSE UNION { { <<Entry(ki[1], v)>> \o rest :
                     v \in ValuesOf(ki[2], tab),
                     rest \in {r \in tab[n - ki[2]] : ~HasKey(r, ki[1])} } :
                 ki \in K \X (0..(n - 1)) }

RECURSIVE MapsFrom(_, _, _, _)
MapsFrom(n, K, nmax, tab) ==
    IF n > nmax THEN tab
    ELSE MapsFrom(n + 1, K, nmax, Append(tab, MapsOf(n, K, tab)))

MapsTable(K, nmax) == MapsFrom(0, K, nmax, <<>>)

\* The documents of the merge, by number of entries, and of the round trip.
MergeDocs == MapsTable(Keys, MaxNodes)

RoundTripDocs ==
    LET tab == MapsTable(RoundTripKeys, MaxDocNodes)
    IN  UNION {tab[n + 1] : n \in 0..MaxDocNodes}

NoResult == [status |-> "pending"]

(***************************************************************************)
(* The state machine: a call is drawn, then made.                          *)
(***************************************************************************)
\* A call that takes no robot name, no separator and no name to validate.
NoNameArgs == robot_name = <<>> /\ new_sep = <<>> /\ s_arg = None

InitNamespaceCall ==
    /\ op \in {"create_global_namespace", "is_valid_namespace"}
    /\ ns \in Strs
    /\ NoNameArgs
    /\ defaults = <<>> /\ override = <<>>
    /\ allow_none = TRUE /\ numeric_compat = FALSE
    /\ a = None /\ b = None

InitMergeCall ==
    /\ op = "merge_yaml_maps_strict"
    /\ ns = <<>>
    /\ NoNameArgs
    /\ \E n1 \in 0..MaxNodes : \E n2 \in 0..(MaxNodes - n1) :
          /\ defaults \in MergeDocs[n1 + 1]
          /\ override \in MergeDocs[n2 + 1]
    /\ allow_none \in BOOLEAN /\ numeric_compat \in BOOLEAN
    /\ a = None /\ b = None

InitSameTypeCall ==
    /\ op = "same_type"
    /\ ns = <<>>
    /\ NoNameArgs
    /\ defaults = <<>> /\ override = <<>>
    /\ allow_none = TRUE /\ numeric_compat \in BOOLEAN
    /\ a \in TypeValues /\ b \in TypeValues

InitRoundTripCall ==
    /\ op = "flatten_unflatten"
    /\ ns = <<>>
    /\ NoNameArgs
    /\ defaults \in RoundTripDocs
    /\ override = <<>>
    /\ allow_none = TRUE /\ numeric_compat = FALSE
    /\ a = None /\ b = None

Init ==
    /\ pc = "call"
    /\ result = NoResult
    /\ \/ InitNamespaceCall
       \/ InitMergeCall
       \/ InitSameTypeCall
       \/ InitRoundTripCall

Return(r) ==
    /\ pc' = "done"
    /\ result' = r
    /\ UNCHANGED <<op, ns, robot_name, new_sep, s_arg, defaults, override,
                   allow_none, numeric_compat, a, b>>

Call_create_global_namespace ==
    /\ pc = "call" /\ op = "create_global_namespace"
    /\ Return(create_global_namespace(ns))

Call_is_valid_namespace ==
    /\ pc = "call" /\ op = "is_valid_namespace"
    /\ Return(is_valid_namespace(ns))

Call_merge_yaml_maps_strict ==
    /\ pc = "call" /\ op = "merge_yaml_maps_strict"
    /\ Return(merge_yaml_maps_strict(defaults, override, FlatSep, allow_none,
                                     numeric_compat))

\* A faulty variant: the flat keys are split on the keypath separator, not on
\* the separator they were joined with.
flatten_unflatten_keypath_sep(d, flat_sep) ==
    LET f == Flatten(d, flat_sep)
    IN  IF ~f.ok THEN [status |-> "KeyError", nested |-> <<>>]
        ELSE [status |-> "ok", nested |-> Unflatten(f.flat, KeypathSep)]

\* The two steps of the merge that take a document to its flat form and a
\* flat form back to a document, applied one after the other.
flatten_unflatten(d, flat_sep) ==
    LET f == Flatten(d, flat_sep)
    IN  IF ~f.ok THEN [status |-> "KeyError", nested |-> <<>>]
        ELSE [status |-> "ok", nested |-> Unflatten(f.flat, flat_sep)]

Call_flatten_unflatten ==
    /\ pc = "call" /\ op = "flatten_unflatten"
    /\ Return(flatten_unflatten(defaults, FlatSep))

Call_same_type ==
    /\ pc = "call" /\ op = "same_type"
    /\ Return([status |-> "ok", value |-> same_type(a, b, numeric_compat)])

Next ==
    \/ Call_create_global_namespace
    \/ Call_is_valid_namespace
    \/ Call_merge_yaml_maps_strict
    \/ Call_flatten_unflatten
    \/ Call_same_type

Spec == Init /\ [][Next]_vars

(***************************************************************************)
(* The robot helpers: one call of create_robot_namespace or of             *)
(* create_robot_prefix.                                                    *)
(***************************************************************************)
\* The robot names given to create_robot_namespace: a Name, a Name between
\* spaces, a name that starts with a digit, a blank name and a name with a
\* character that no Name has.
RobotNames ==
    {<<"a">>, <<" ", "a", "_", " ">>, <<"1", "a">>, <<" ">>, <<"a", "-">>}

InitRobotNamespaceCall ==
    /\ op = "create_robot_namespace"
    /\ ns \in Strs
    /\ robot_name \in RobotNames
    /\ new_sep = <<>> /\ s_arg = None
    /\ defaults = <<>> /\ override = <<>>
    /\ allow_none = TRUE /\ numeric_compat = FALSE
    /\ a = None /\ b = None

\* n times the character c.
Repeat(c, n) == [i \in 1..n |-> c]

\* Names about as long as the longest Name: 253 to 256 characters, the
\* last one a letter or '_'.
LongNames ==
    {Repeat("a", n) \o tail : n \in (MaxNameLen - 2)..MaxNameLen,
                              tail \in {<<>>, <<"_">>, <<"a">>}}

InitRobotPrefixCall ==
    /\ op = "create_robot_prefix"
    /\ ns = <<>>
    /\ robot_name \in Strs \cup LongNames
    /\ new_sep = <<>> /\ s_arg = None
    /\ defaults = <<>> /\ override = <<>>
    /\ allow_none = TRUE /\ numeric_compat = FALSE
    /\ a = None /\ b = None

RobotInit ==
    /\ pc = "call"
    /\ result = NoResult
    /\ \/ InitRobotNamespaceCall
       \/ InitRobotPrefixCall

Call_create_robot_namespace ==
    /\ pc = "call" /\ op = "create_robot_namespace"
    /\ Return(create_robot_namespace(ns, robot_name))

Call_create_robot_prefix ==
    /\ pc = "call" /\ op = "create_robot_prefix"
    /\ Return(create_robot_prefix(robot_name))

RobotNext ==
    \/ Call_create_robot_namespace
    \/ Call_create_robot_prefix

RobotSpec == RobotInit /\ [][RobotNext]_vars

(***************************************************************************)
(* The name helpers: one call of _replace_separator_in_namespace or of     *)
(* is_valid_name.                                                          *)
(***************************************************************************)
\* The separators given as new_sep: the '.' of dottify_namespace, the '_' of
\* underscorify_namespace, no character and two characters.
Seps == {<<".">>, <<"_">>, <<>>, <<".", ".">>}

InitReplaceSeparatorCall ==
    /\ op = "_replace_separator_in_namespace"
    /\ ns \in Strs
    /\ new_sep \in Seps
    /\ robot_name = <<>> /\ s_arg = None
    /\ defaults = <<>> /\ override = <<>>
    /\ allow_none = TRUE /\ numeric_compat = FALSE
    /\ a = None /\ b = None

\* A str value: items holds its characters.
StrVal(chars) == [tag |-> "str", val |-> 0, items |-> chars]

\* Strings with "E", which stands for a letter that is not ASCII (str.isalnum
\* holds of it, str.isascii does not).
NonAsciiNames == {<<"E">>, <<"a", "E">>, <<"E", "a">>}

\* Arguments that are no str.
NonStrings == {Leaf("int", 1), Leaf("bool", 1), None}

InitValidNameCall ==
    /\ op = "is_valid_name"
    /\ ns = <<>>
    /\ s_arg \in {StrVal(x) : x \in Strs \cup LongNames \cup NonAsciiNames}
                     \cup NonStrings
    /\ robot_name = <<>> /\ new_sep = <<>>
    /\ defaults = <<>> /\ override = <<>>
    /\ allow_none = TRUE /\ numeric_compat = FALSE
    /\ a = None /\ b = None

NameInit ==
    /\ pc = "call"
    /\ result = NoResult
    /\ \/ InitReplaceSeparatorCall
       \/ InitValidNameCall

Call__replace_separator_in_namespace ==
    /\ pc = "call" /\ op = "_replace_separator_in_namespace"
    /\ Return(_replace_separator_in_namespace(ns, new_sep))

\* is_valid_name for an argument of any type: isinstance(s, str) first.
is_valid_name_of(v) == IF v.tag # "str" THEN FALSE ELSE is_valid_name(v.items)

Call_is_valid_name ==
    /\ pc = "call" /\ op = "is_valid_name"
    /\ Return([status |-> "ok", value |-> is_valid_name_of(s_arg)])

NameNext ==
    \/ Call__replace_separator_in_namespace
    \/ Call_is_valid_name

NameSpec == NameInit /\ [][NameNext]_vars

(***************************************************************************)
(* What the properties below are stated with.                              *)
(***************************************************************************)
Done(o) == pc = "done" /\ op = o

InSeq(q, x) == \E i \in 1..Len(q) : q[i] = x

IndexOf(q, x) == CHOOSE i \in 1..Len(q) : q[i] = x

Count(q, x) == Cardinality({i \in 1..Len(q) : q[i] = x})

KeySet(m) == {m[i].k : i \in 1..Len(m)}

\* The flat forms of the two documents of the call.
DFlat == Flatten(defaults, FlatSep).flat

OFlat == Flatten(override, FlatSep).flat

MergeOk == Done("merge_yaml_maps_strict") /\ result.status = "ok"

\* The value a document holds at a flat path, Missing when it holds none.
Missing == Leaf("missing", 0)

RECURSIVE GetPath(_, _)
GetPath(m, keys) ==
    IF ~HasKey(m, keys[1]) THEN Missing
    ELSE IF Len(keys) = 1 THEN Get(m, keys[1])
    ELSE IF Get(m, keys[1]).tag # "dict" THEN Missing
    ELSE GetPath(Get(m, keys[1]).items, Tail(keys))

ValueAt(m, path) == GetPath(m, Split(path, FlatSep))

\* Equality of two documents as Python's == has it: the same keys with
\* equal values, in whatever order.
RECURSIVE DocEq(_, _)
ValEq(x, y) ==
    /\ x.tag = y.tag
    /\ IF x.tag = "dict" THEN DocEq(x.items, y.items) ELSE x.val = y.val

DocEq(m1, m2) ==
    /\ Len(m1) = Len(m2)
    /\ \A i \in 1..Len(m1) :
          HasKey(m2, m1[i].k) /\ ValEq(m1[i].v, Get(m2, m1[i].k))

\* No key of the document, at any depth, holds the join separator.
RECURSIVE NoSepInKeys(_)
NoSepInKeys(m) ==
    \A i \in 1..Len(m) :
        /\ ~InSeq(m[i].k, FlatSep)
        /\ m[i].v.tag = "dict" => NoSepInKeys(m[i].v.items)

\* No value of the document, at any depth, is a mapping with no entries.
RECURSIVE NoEmptyMap(_)
NoEmptyMap(m) ==
    \A i \in 1..Len(m) :
        m[i].v.tag = "dict" =>
            m[i].v.items # <<>> /\ NoEmptyMap(m[i].v.items)

\* The type rule as the specification words it.
Number(v) == v.tag \in {"int", "float"}

Compatible(x, y, nc) == x.tag = y.tag \/ (nc /\ Number(x) /\ Number(y))

\* The positions of d_flatten whose override value is not null and is of
\* an incompatible type.
Mismatches(d_flatten, o_flatten) ==
    {i \in 1..Len(d_flatten) :
        /\ HasKey(o_flatten, d_flatten[i].k)
        /\ Get(o_flatten, d_flatten[i].k).tag # "NoneType"
        /\ ~Compatible(d_flatten[i].v, Get(o_flatten, d_flatten[i].k),
                       numeric_compat)}

First(S) == CHOOSE i \in S : \A j \in S : i <= j

C2_TypeMismatchAborts ==
    LET d_flatten == DFlat
        o_flatten == OFlat
        mism == Mismatches(d_flatten, o_flatten)
    IN
    (Done("merge_yaml_maps_strict") /\ mism # {}) =>
        /\ result.status = "TypeError"
        /\ result.err_key = d_flatten[First(mism)].k
        /\ result.err_default = d_flatten[First(mism)].v.tag
        /\ result.err_override = Get(o_flatten, result.err_key).tag
        /\ result.nested = <<>>
        /\ result.applied = <<>>
        /\ result.ignored = <<>>

\* Two paths mismatch, and the first one in the defaults' order comes
\* second in the override.
C2_Witness ==
    LET d_flatten == DFlat
        o_flatten == OFlat
        mism == Mismatches(d_flatten, o_flatten)
    IN
    /\ Done("merge_yaml_maps_strict")
    /\ Cardinality(mism) >= 2
    /\ result.status = "TypeError"
    /\ o_flatten[1].k # result.err_key

\* C3: same_type is true exactly when the two values have the same type,
\* or numeric_compat is set and both are an int or a float (a bool is
\* neither).
C3_SameTypeRule ==
    Done("same_type") =>
        /\ result.value =
              (a.tag = b.tag \/
                 (numeric_compat /\ a.tag \in {"int", "float"}
                                 /\ b.tag \in {"int", "float"}))
        /\ (a.tag = "bool") # (b.tag = "bool") => result.value = FALSE
        /\ {a.tag, b.tag} = {"int", "float"} => result.value = numeric_compat

C3_Witness ==
    /\ Done("same_type")
    /\ a.tag = "bool" /\ b.tag = "int" /\ numeric_compat
    /\ result.value = FALSE

SilentInheritance ==
    LET d_flatten == DFlat
        o_flatten == OFlat
    IN
    MergeOk =>
        \A i \in 1..Len(d_flatten) :
            ~HasKey(o_flatten, d_flatten[i].k) =>
                /\ ValueAt(result.nested, d_flatten[i].k) = d_flatten[i].v
                /\ ~InSeq(result.applied, d_flatten[i].k)
                /\ ~InSeq(result.ignored, d_flatten[i].k)

C6_EmissionOrder ==
    LET d_flatten == DFlat
        o_flatten == OFlat
    IN
    MergeOk =>
        /\ \A i, j \in 1..Len(defaults) : \A p, q \in 1..Len(d_flatten) :
              (/\ i < j
               /\ Split(d_flatten[p].k, FlatSep)[1] = defaults[i].k
               /\ Split(d_flatten[q].k, FlatSep)[1] = defaults[j].k) => p < q
        /\ \A s \in {result.applied, result.ignored} :
              \A i, j \in 1..Len(s) :
                  (i < j /\ HasKey(d_flatten, s[i]) /\ HasKey(d_flatten, s[j])) =>
                      IndexOf(KeysOf(d_flatten), s[i]) < IndexOf(KeysOf(d_flatten), s[j])

\* Two paths applied, the key "b" before the key "a" as in defaults.
C6_Witness ==
    /\ MergeOk
    /\ result.applied = <<<<"b">>, <<"a">>>>

(***************************************************************************)
(* Flatten, then unflatten.                                                *)
(***************************************************************************)
\* C7 as claimed: a document whose keys hold no join separator comes back
\* equal from flatten and unflatten, an empty mapping among its values
\* included.
C7_RoundTripAnyDocument ==
    (Done("flatten_unflatten") /\ NoSepInKeys(defaults)) =>
        /\ result.status = "ok"
        /\ DocEq(result.nested, defaults)

\* C7 as amended: it does when, besides, none of its values is an empty
\* mapping.
C7_RoundTrip ==
    (Done("flatten_unflatten") /\ NoSepInKeys(defaults) /\ NoEmptyMap(defaults)) =>
        /\ result.status = "ok"
        /\ DocEq(result.nested, defaults)

\* A document of two levels and two leaves.
C7_Witness ==
    /\ Done("flatten_unflatten")
    /\ NoSepInKeys(defaults) /\ NoEmptyMap(defaults)
    /\ Len(Flatten(defaults, FlatSep).flat) = 2
    /\ \E i \in 1..Len(defaults) : defaults[i].v.tag = "dict"
    /\ DocEq(result.nested, defaults)

(***************************************************************************)
(* The namespace helpers.                                                  *)
(***************************************************************************)
\* A Name as the specification words it: one to 255 letters, digits and
\* underscores, the first one no digit.
NameChars == {"a", "1", "_"}

SpecName(s) ==
    /\ Len(s) \in 1..MaxNameLen
    /\ s[1] # "1"
    /\ {s[i] : i \in 1..Len(s)} \subseteq NameChars

\* One or more Names joined by '/'.
IsNameSeq(x) ==
    /\ x # <<>>
    /\ \A i \in 1..Len(Split(x, "/")) : SpecName(Split(x, "/")[i])

\* x, '/'+x, x+'/' and '/'+x+'/'.
Variants(x) == {x, <<"/">> \o x, x \o <<"/">>, <<"/">> \o x \o <<"/">>}

\* Every x of which s is one of the four variants.
Cores(s) ==
    {x \in {s, SubSeq(s, 2, Len(s)), SubSeq(s, 1, Len(s) - 1),
            SubSeq(s, 2, Len(s) - 1)} : s \in Variants(x)}

\* C8: '' and '/' become '/', and the four variants of a sequence x of
\* Names joined by '/' all become '/'+x.
C8_GlobalNamespaceNormalForm ==
    Done("create_global_namespace") =>
        /\ ns \in {<<>>, <<"/">>} =>
              result.status = "ok" /\ result.value = <<"/">>
        /\ \A x \in Cores(ns) :
              IsNameSeq(x) =>
                  result.status = "ok" /\ result.value = <<"/">> \o x

\* '/'+x+'/' for an x of two Names.
C8_Witness ==
    /\ Done("create_global_namespace")
    /\ StartsWith(ns, "/") /\ EndsWith(ns, "/")
    /\ \E x \in Cores(ns) : IsNameSeq(x) /\ Len(Split(x, "/")) = 2
    /\ result.status = "ok"
    /\ result.value = SubSeq(ns, 1, Len(ns) - 1)

\* Two or more '/' in a row, wherever they are.
HasConsecutiveSeparators(s) ==
    \E i \in 1..(Len(s) - 1) : s[i] = "/" /\ s[i + 1] = "/"

\* C9: create_global_namespace rejects every input that holds two or more
\* '/' in a row, at the end of the input included.
C9_ConsecutiveSeparatorsRejected ==
    (Done("create_global_namespace") /\ HasConsecutiveSeparators(ns)) =>
        result.status # "ok"

\* What C10 says is_valid_namespace returns.
CoreOf(s) ==
    LET s1 == IF StartsWith(s, "/") THEN SubSeq(s, 2, Len(s)) ELSE s
    IN  IF EndsWith(s1, "/") THEN SubSeq(s1, 1, Len(s1) - 1) ELSE s1

Failing(segs) == {i \in 1..Len(segs) : segs[i] = <<>> \/ ~SpecName(segs[i])}

ExpectedValidity(s) ==
    IF s \in {<<>>, <<"/">>} THEN [ok |-> TRUE, msg |-> ""]
    ELSE IF CoreOf(s) = <<>> THEN [ok |-> FALSE, msg |-> MsgEmpty]
    ELSE LET segs == Split(CoreOf(s), "/")
         IN  IF Failing(segs) = {} THEN [ok |-> TRUE, msg |-> ""]
             ELSE LET first == CHOOSE i \in Failing(segs) :
                                   \A j \in Failing(segs) : i <= j
                  IN  IF segs[first] = <<>>
                      THEN [ok |-> FALSE, msg |-> MsgConsecutive]
                      ELSE [ok |-> FALSE, msg |-> MsgSegment]

\* C10 as claimed: the result is the one described, and x, '/'+x, x+'/'
\* and '/'+x+'/' are valid or invalid together whenever x neither starts
\* nor ends with '/'.
C10_ValidityOfAnyVariants ==
    Done("is_valid_namespace") =>
        /\ result = ExpectedValidity(ns)
        /\ (~StartsWith(ns, "/") /\ ~EndsWith(ns, "/")) =>
              \A v \in Variants(ns) : is_valid_namespace(v).ok = result.ok

\* C10 as amended: the same, for a non-empty x.
C10_NamespaceValidity ==
    Done("is_valid_namespace") =>
        /\ result = ExpectedValidity(ns)
        /\ (ns # <<>> /\ ~StartsWith(ns, "/") /\ ~EndsWith(ns, "/")) =>
              \A v \in Variants(ns) : is_valid_namespace(v).ok = result.ok

\* An invalid segment comes before an empty one, and is the one reported.
C10_Witness ==
    /\ Done("is_valid_namespace")
    /\ ~StartsWith(ns, "/") /\ ~EndsWith(ns, "/")
    /\ result.msg = MsgSegment
    /\ \E i \in 1..Len(Split(ns, "/")) : Split(ns, "/")[i] = <<>>

(***************************************************************************)
(* The robot helpers.                                                      *)
(***************************************************************************)
\* The namespace without the one '/' that may end it.
TrimOneSlash(x) == IF EndsWith(x, "/") THEN SubSeq(x, 1, Len(x) - 1) ELSE x

\* C11: for a valid robot name r, '' gives r and '/' gives '/'+r; every
\* other namespace that validates gives the namespace without its trailing
\* '/', then '/', then r, and the result starts with '/' exactly when the
\* namespace does.
C11_RobotNamespaceForm ==
    LET r == Strip(robot_name)
    IN  (Done("create_robot_namespace") /\ SpecName(r)) =>
            /\ ns = <<>> => result.status = "ok" /\ result.value = r
            /\ ns = <<"/">> =>
                  result.status = "ok" /\ result.value = <<"/">> \o r
            /\ (ns \notin {<<>>, <<"/">>} /\ ExpectedValidity(ns).ok) =>
                  /\ result.status = "ok"
                  /\ result.value = TrimOneSlash(ns) \o <<"/">> \o r
                  /\ StartsWith(result.value, "/") <=> StartsWith(ns, "/")
                  /\ ~HasConsecutiveSeparators(result.value)

\* A relative namespace of two Names that ends with '/', and a robot name
\* between spaces.
C11_Witness ==
    /\ Done("create_robot_namespace")
    /\ robot_name = <<" ", "a", "_", " ">>
    /\ ~StartsWith(ns, "/") /\ EndsWith(ns, "/")
    /\ Len(Split(TrimOneSlash(ns), "/")) = 2
    /\ result.status = "ok"
    /\ result.value = TrimOneSlash(ns) \o <<"/", "a", "_">>

\* C12: create_robot_namespace fails when the robot name, trimmed, is empty
\* or no valid Name, and fails when the namespace without one trailing '/'
\* is neither '' nor '/' and is not a valid namespace: a namespace that
\* ends with three '/' is rejected.
C12_InvalidInputsRejected ==
    LET r == Strip(robot_name)
        t == TrimOneSlash(ns)
    IN  Done("create_robot_namespace") =>
            /\ (r = <<>> \/ ~SpecName(r)) => result.status = "RuntimeError"
            /\ (t \notin {<<>>, <<"/">>} /\ ~ExpectedValidity(t).ok) =>
                  result.status = "RuntimeError"

\* What C13 says create_robot_prefix returns for a robot name whose trimmed
\* form n is a Name: n if n ends with '_', n followed by '_' if not.
PrefixForm ==
    LET n == Strip(robot_name)
    IN  /\ (n = <<>> \/ ~SpecName(n)) => result.status = "RuntimeError"
        /\ SpecName(n) =>
              /\ result.status = "ok"
              /\ result.value = IF EndsWith(n, "_") THEN n ELSE n \o <<"_">>

\* C13 as claimed: the result is the one described, and for every accepted
\* name the prefix of the prefix is the prefix.
C13_PrefixIdempotentAnyName ==
    Done("create_robot_prefix") =>
        /\ PrefixForm
        /\ result.status = "ok" => create_robot_prefix(result.value) = result

\* C13 as amended: the result is the one described, and the prefix of the
\* prefix is the prefix for every accepted name that ends with '_' or is
\* shorter than the longest Name.
C13_PrefixIdempotent ==
    LET n == Strip(robot_name)
    IN  Done("create_robot_prefix") =>
            /\ PrefixForm
            /\ (result.status = "ok"
                    /\ (EndsWith(n, "_") \/ Len(n) < MaxNameLen)) =>
                  create_robot_prefix(result.value) = result

\* A name between spaces that gets its '_', and whose prefix is accepted
\* and left as it is.
C13_Witness ==
    /\ Done("create_robot_prefix")
    /\ StartsWith(robot_name, " ") /\ EndsWith(robot_name, " ")
    /\ ~EndsWith(Strip(robot_name), "_")
    /\ result.status = "ok"
    /\ result.value = Strip(robot_name) \o <<"_">>
    /\ create_robot_prefix(result.value).status = "ok"
    /\ create_robot_prefix(result.value).value = result.value

(***************************************************************************)
(* The name helpers.                                                       *)
(***************************************************************************)
\* The segments, in order, with sep between one and the next.
RECURSIVE Join(_, _)
Join(segs, sep) ==
    IF segs = <<>> THEN <<>>
    ELSE IF Len(segs) = 1 THEN segs[1]
    ELSE segs[1] \o sep \o Join(Tail(segs), sep)

\* C14: _replace_separator_in_namespace fails when new_sep is not one
\* character or the namespace is invalid, returns '' for '' and '/', and for
\* every other valid namespace returns its Names, in order, joined by
\* new_sep, the same for 'ns', '/ns', 'ns/' and '/ns/'.
C14_SeparatorReplaced ==
    Done("_replace_separator_in_namespace") =>
        /\ Len(new_sep) # 1 => result.status = "ValueError"
        /\ Len(new_sep) = 1 =>
              /\ ns \in {<<>>, <<"/">>} =>
                    result.status = "ok" /\ result.value = <<>>
              /\ ~ExpectedValidity(ns).ok => result.status = "RuntimeError"
              /\ (ns \notin {<<>>, <<"/">>} /\ ExpectedValidity(ns).ok) =>
                    /\ result.status = "ok"
                    /\ result.value = Join(Split(CoreOf(ns), "/"), new_sep)
                    /\ \A v \in Variants(CoreOf(ns)) :
                          _replace_separator_in_namespace(v, new_sep) = result

\* '/'+x+'/' for an x of two Names, dottified.
C14_Witness ==
    /\ Done("_replace_separator_in_namespace")
    /\ new_sep = <<".">>
    /\ StartsWith(ns, "/") /\ EndsWith(ns, "/")
    /\ Len(Split(CoreOf(ns), "/")) = 2
    /\ result.status = "ok"
    /\ Len(result.value) = Len(ns) - 2
    /\ Len(Split(result.value, ".")) = 2
    /\ \A i \in 1..Len(result.value) : result.value[i] # "/"

NoDuplicate(q) == \A i, j \in 1..Len(q) : q[i] = q[j] => i = j

\* C16: after a merge that succeeds, every flat path of the override is
\* once in applied or once in ignored and not in both, neither list has a
\* duplicate or a path the override has not, and every path in applied is a
\* path of the defaults.
C16_AppliedIgnoredPartition ==
    LET d_flatten == DFlat
        o_flatten == OFlat
    IN
    MergeOk =>
        /\ \A k \in KeySet(o_flatten) :
              Count(result.applied, k) + Count(result.ignored, k) = 1
        /\ \A i \in 1..Len(result.applied) :
              ~InSeq(result.ignored, result.applied[i])
        /\ NoDuplicate(result.applied)
        /\ NoDuplicate(result.ignored)
        /\ \A i \in 1..Len(result.applied) :
              /\ result.applied[i] \in KeySet(o_flatten)
              /\ result.applied[i] \in KeySet(d_flatten)
        /\ \A i \in 1..Len(result.ignored) :
              result.ignored[i] \in KeySet(o_flatten)

\* A path is applied, and a null override of a path of the defaults is
\* ignored.
C16_Witness ==
    LET d_flatten == DFlat
        o_flatten == OFlat
    IN
    /\ MergeOk
    /\ Len(result.applied) >= 1
    /\ \E i \in 1..Len(result.ignored) :
          result.ignored[i] \in KeySet(d_flatten)
    /\ Len(result.applied) + Len(result.ignored) = Len(o_flatten)

\* C17: a value create_global_namespace returns is '/' or starts with '/',
\* does not end with '/', holds no whitespace and is a valid namespace, and
\* create_global_namespace returns it as it is.
C17_CanonicalGlobalNamespace ==
    (Done("create_global_namespace") /\ result.status = "ok") =>
        /\ \/ result.value = <<"/">>
           \/ /\ StartsWith(result.value, "/")
              /\ ~EndsWith(result.value, "/")
              /\ \A i \in 1..Len(result.value) : result.value[i] # " "
              /\ is_valid_namespace(result.value).ok
              /\ ExpectedValidity(result.value).ok
        /\ create_global_namespace(result.value) = result

\* A relative namespace between spaces that ends with '/'.
C17_Witness ==
    /\ Done("create_global_namespace")
    /\ StartsWith(ns, " ") /\ EndsWith(ns, " ")
    /\ EndsWith(Strip(ns), "/") /\ ~StartsWith(Strip(ns), "/")
    /\ result.status = "ok"
    /\ result.value # <<"/">>
    /\ Len(result.value) = Len(ns) - 2

====
